---------------------------- MODULE Spec2Model ----------------------------
(***************************************************************************)
(* The Labeled Faces in the Wild database package: the one-pass ingestion  *)
(* (create.py) that fills the tables Client, File, People, Pair and        *)
(* Annotation of the SQLite file, and the query layer (query.py, class     *)
(* Database) that slices those tables by protocol, group, purpose,         *)
(* subworld and class.                                                     *)
(*                                                                         *)
(* Python strings are modelled as sequences of one-character strings, so   *)
(* that slicing (fold[4:]), formatting ("fold%d" % f) and concatenation    *)
(* are computed and not assumed.  A Python argument is a tagged value:     *)
(* None, a str, or a tuple/list of str.  A list returned by a query is a   *)
(* bag: SQL leaves the row order of these queries open, and the claims     *)
(* speak of the rows and of their number only.                             *)
(***************************************************************************)
EXTENDS Bags, FiniteSets, Integers, Sequences, TLC

(***************************************************************************)
(* Bounds of the model.                                                    *)
(***************************************************************************)
\* Lines of the protocol text files (people and pairs lists together).
MaxLines == 2

(***************************************************************************)
(* String literals of the source.                                          *)
(***************************************************************************)
view1 == <<"v", "i", "e", "w", "1">>
view2 == <<"v", "i", "e", "w", "2">>
fold1 == <<"f", "o", "l", "d", "1">>
fold2 == <<"f", "o", "l", "d", "2">>
fold3 == <<"f", "o", "l", "d", "3">>
fold4 == <<"f", "o", "l", "d", "4">>
fold5 == <<"f", "o", "l", "d", "5">>
fold6 == <<"f", "o", "l", "d", "6">>
fold7 == <<"f", "o", "l", "d", "7">>
fold8 == <<"f", "o", "l", "d", "8">>
fold9 == <<"f", "o", "l", "d", "9">>
fold10 == <<"f", "o", "l", "d", "1", "0">>
train == <<"t", "r", "a", "i", "n">>
test == <<"t", "e", "s", "t">>
world == <<"w", "o", "r", "l", "d">>
dev == <<"d", "e", "v">>
eval == <<"e", "v", "a", "l">>
enrol == <<"e", "n", "r", "o", "l">>
probe == <<"p", "r", "o", "b", "e">>
matched == <<"m", "a", "t", "c", "h", "e", "d">>
unmatched == <<"u", "n">> \o matched
restricted == <<"r", "e", "s", "t", "r", "i", "c", "t", "e", "d">>
unrestricted == <<"u", "n">> \o restricted
folds_ == <<"f", "o", "l", "d", "s">>
onefolds == <<"o", "n", "e">> \o folds_
twofolds == <<"t", "w", "o">> \o folds_
threefolds == <<"t", "h", "r", "e", "e">> \o folds_
fourfolds == <<"f", "o", "u", "r">> \o folds_
fivefolds == <<"f", "i", "v", "e">> \o folds_
sixfolds == <<"s", "i", "x">> \o folds_
sevenfolds == <<"s", "e", "v", "e", "n">> \o folds_

(***************************************************************************)
(* Python values and the string operations the code uses.                  *)
(***************************************************************************)
None == [t |-> "none", v |-> <<>>]
Str(s) == [t |-> "str", v |-> s]
Tuple(q) == [t |-> "tuple", v |-> q]

\* Python's truth value of an argument: None, '' and () are false.
Truthy(x) == x.t # "none" /\ Len(x.v) > 0

\* x in seq, for a tuple or list seq.
In(x, seq) == \E i \in 1..Len(seq) : seq[i] = x

Digits == <<"0", "1", "2", "3", "4", "5", "6", "7", "8", "9">>

\* str(n) and "%d" % n for n >= 0
RECURSIVE DecStr(_)
DecStr(n) ==
  IF n < 10 THEN <<Digits[n + 1]>>
  ELSE DecStr(n \div 10) \o <<Digits[(n % 10) + 1]>>

\* int(s) for a non-empty string of decimal digits
RECURSIVE ParseInt(_)
ParseInt(s) ==
  LET d == CHOOSE k \in 0..9 : Digits[k + 1] = s[Len(s)]
  IN  IF Len(s) = 1 THEN d ELSE 10 * ParseInt(SubSeq(s, 1, Len(s) - 1)) + d

\* "fold%d" % f, F'fold{fold}' and "fold" + str(fold_id)
FoldName(f) == <<"f", "o", "l", "d">> \o DecStr(f)

\* [g(x) for x in seq]
Map(g(_), seq) == [i \in 1..Len(seq) |-> g(seq[i])]

(***************************************************************************)
(* Database.__init__: the valid argument values.                           *)
(***************************************************************************)
m_valid_protocols ==
  <<view1, fold1, fold2, fold3, fold4, fold5, fold6, fold7, fold8, fold9, fold10>>
m_valid_groups == <<world, dev, eval>>
m_valid_purposes == <<enrol, probe>>
m_valid_classes == <<matched, unmatched>>
\* the dictionary m_subworld_counts: its keys, and its value at a key
m_subworld_keys ==
  <<onefolds, twofolds, threefolds, fourfolds, fivefolds, sixfolds, sevenfolds>>
m_subworld_counts(k) ==
  CASE k = onefolds -> 1
    [] k = twofolds -> 2
    [] k = threefolds -> 3
    [] k = fourfolds -> 4
    [] k = fivefolds -> 5
    [] k = sixfolds -> 6
    [] k = sevenfolds -> 7
m_valid_types == <<restricted, unrestricted>>

(***************************************************************************)
(* Argument checks.  An outcome is a record [exc, val]: exc is "none" and  *)
(* val the value, or exc names the exception raised.                       *)
(***************************************************************************)
Raise(e) == [exc |-> e, val |-> <<>>]
Return(x) == [exc |-> "none", val |-> x]

\* __check_single__: "ok", or the exception it raises
__check_single__(value, valid) ==
  IF value.t # "str" THEN "ValueError"
  ELSE IF ~In(value.v, valid) THEN "ValueError"
  ELSE "ok"

\* the loop of __check_validity__ looking at the first element only
CheckLoopFirstOnly(list, valid) ==
  IF ~In(list[1], valid) THEN Raise("RuntimeError") ELSE Return(list)

\* the loop of __check_validity__ over a tuple or list
CheckLoop(list, valid) ==
  IF \E i \in 1..Len(list) : ~In(list[i], valid)
  THEN Raise("RuntimeError")
  ELSE Return(list)

\* __check_validity__: the checked tuple, or the exception
__check_validity__(list, valid) ==
  IF ~Truthy(list) THEN Return(valid)
  ELSE IF list.t = "str" THEN CheckLoop(<<list.v>>, valid)
  ELSE CheckLoop(list.v, valid)

(***************************************************************************)
(* Fold rotation.                                                          *)
(***************************************************************************)
__eval__(fold) == ParseInt(SubSeq(fold, 5, Len(fold)))

\* __dev__ taking the two folds one place earlier in the rotation
__dev__shifted(ev) == <<((ev + 6) % 10) + 1, ((ev + 7) % 10) + 1>>

__dev__(ev) == <<((ev + 7) % 10) + 1, ((ev + 8) % 10) + 1>>

__dev_for__(fold) == Map(FoldName, __dev__(__eval__(fold)))

WorldFolds(ev, world_count) == [i \in 1..world_count |-> ((ev + (i - 1)) % 10) + 1]

\* defined for a subworld among the keys of m_subworld_counts only
\* (the callers raise KeyError otherwise)
__world_for__(fold, subworld) ==
  Map(FoldName, WorldFolds(__eval__(fold), m_subworld_counts(subworld)))

(***************************************************************************)
(* State.                                                                  *)
(***************************************************************************)
VARIABLES
  basedir,    \* the protocol text files, as far as create() has read them
  disk,       \* the SQLite file: NoFile, or the committed tables
  cpc,        \* where create() stands
  sess,       \* the rows create()'s session holds, not yet committed
  m_session,  \* Database.m_session: "None" or "open"
  last        \* the last call of the query layer and its outcome

vars == <<basedir, disk, cpc, sess, m_session, last>>

(***************************************************************************)
(* The tables (models.py).  A File row is identified by its id, a People   *)
(* or Pair row by its position (the autoincremented integer key).          *)
(***************************************************************************)
EmptyTables ==
  [client |-> {}, file |-> {}, people |-> <<>>, pair |-> <<>>, annotation |-> {}]

NoFile == [exists |-> FALSE, tables |-> EmptyTables]
DbFile(t) == [exists |-> TRUE, tables |-> t]

\* File.__init__, given the client id and str(shot_id)
File(client_id, shot_id) ==
  [id |-> client_id \o <<"_">> \o [i \in 1..(4 - Len(shot_id)) |-> "0"] \o shot_id,
   client_id |-> client_id,
   shot_id |-> ParseInt(shot_id)]

People(protocol, file_id) == [protocol |-> protocol, file_id |-> file_id]

Pair(protocol, enrol_file_id, probe_file_id, is_match) ==
  [protocol |-> protocol, enrol_file_id |-> enrol_file_id,
   probe_file_id |-> probe_file_id, is_match |-> is_match]

(***************************************************************************)
(* Queries of the session.  A query is the set of the rows of its joins;   *)
(* a row records the entity asked for (ent), the Pair or People row it     *)
(* was joined with (row) and, in the probe queries, the aliased File the   *)
(* pair's enrol file was joined with (alias).  Iterating a query of one    *)
(* mapped class yields each entity once (the ORM returns a single-entity   *)
(* query's rows uniqued by identity: 853 models for the 1000 test pairs of *)
(* view1 in test.py).                                                      *)
(***************************************************************************)
FileIds(db) == {f.id : f \in db.file}

\* the join of the world files on the enrol file alone
FileJoinPairEnrolOnly(db) ==
  {[ent |-> f, row |-> i, alias |-> f] : <<f, i>> \in
     {x \in FileIds(db) \X (DOMAIN db.pair) : x[1] = db.pair[x[2]].enrol_file_id}}

\* session.query(File).join((Pair, or_(File.id == Pair.enrol_file_id,
\*                                   File.id == Pair.probe_file_id)))
FileJoinPairEither(db) ==
  {[ent |-> f, row |-> i, alias |-> f] : <<f, i>> \in
     {x \in FileIds(db) \X (DOMAIN db.pair) :
        \/ x[1] = db.pair[x[2]].enrol_file_id
        \/ x[1] = db.pair[x[2]].probe_file_id}}

\* session.query(File).join((Pair, File.id == Pair.enrol_file_id))
FileJoinPairEnrol(db) ==
  {[ent |-> f, row |-> i, alias |-> f] : <<f, i>> \in
     {x \in FileIds(db) \X (DOMAIN db.pair) : x[1] = db.pair[x[2]].enrol_file_id}}

\* session.query(File).join((Pair, File.id == Pair.probe_file_id)).
\*                     join((file_alias, file_alias.id == Pair.enrol_file_id))
FileJoinPairProbe(db) ==
  {[ent |-> x[1], row |-> x[2], alias |-> x[3]] : x \in
     {y \in FileIds(db) \X (DOMAIN db.pair) \X FileIds(db) :
        /\ y[1] = db.pair[y[2]].probe_file_id
        /\ y[3] = db.pair[y[2]].enrol_file_id}}

\* session.query(File).join(People): on the foreign key People.file_id
FileJoinPeople(db) ==
  {[ent |-> f, row |-> j, alias |-> f] : <<f, j>> \in
     {x \in FileIds(db) \X (DOMAIN db.people) : x[1] = db.people[x[2]].file_id}}

\* session.query(Client).join(File).join(People): on File.client_id, People.file_id
ClientJoinFileJoinPeople(db) ==
  {[ent |-> x[1], row |-> x[3], alias |-> x[2].id] : x \in
     {y \in db.client \X db.file \X (DOMAIN db.people) :
        /\ y[2].client_id = y[1]
        /\ db.people[y[3]].file_id = y[2].id}}

\* default_query of pairs(): Pair joined with its enrol and its probe File
PairJoinFiles(db) ==
  {[ent |-> i, row |-> i, alias |-> db.pair[i].enrol_file_id] : i \in
     {k \in DOMAIN db.pair :
        /\ db.pair[k].enrol_file_id \in FileIds(db)
        /\ db.pair[k].probe_file_id \in FileIds(db)}}

\* the Pair filter comparing with the first label only
FilterPairProtocolFirst(db, q, labels) == {r \in q : db.pair[r.row].protocol = labels[1]}

\* .filter(Pair.protocol == label) and .filter(Pair.protocol.in_(labels))
FilterPairProtocol(db, q, labels) == {r \in q : In(db.pair[r.row].protocol, labels)}

\* .filter(People.protocol == label) and .filter(People.protocol.in_(labels))
FilterPeopleProtocol(db, q, labels) == {r \in q : In(db.people[r.row].protocol, labels)}

\* .filter(Pair.is_match == b)
FilterIsMatch(db, q, b) == {r \in q : db.pair[r.row].is_match = b}

\* .filter(File.id.in_(model_ids))
FilterFileId(q, model_ids) == {r \in q : In(r.ent, model_ids)}

\* the model filter of the probe queries put on File.id
FilterAliasIdOnFile(q, model_ids) == {r \in q : In(r.ent, model_ids)}

\* .filter(file_alias.id.in_(model_ids))
FilterAliasId(q, model_ids) == {r \in q : In(r.alias, model_ids)}

\* [x for x in query]
Entities(q) == SetToBag({r.ent : r \in q})

\* retval.extend(...) over a list of queries
RECURSIVE Collect(_)
Collect(queries) ==
  IF queries = <<>> THEN EmptyBag
  ELSE Entities(Head(queries)) (+) Collect(Tail(queries))

(***************************************************************************)
(* The query layer: class Database.  The methods read m_session and,       *)
(* through it, the committed tables of the SQLite file.                    *)
(***************************************************************************)
\* is_valid with the test of the session left out
is_valid_always == TRUE

is_valid == m_session # "None"

\* the tables the open session reads
Db == disk.tables

\* the body of clients() after its checks
ClientsBody(protocol, groups, subworld) ==
  LET q == ClientJoinFileJoinPeople(Db)
  IN  IF protocol = view1
      THEN Return(Collect(
             (IF In(world, groups)
              THEN <<FilterPeopleProtocol(Db, q, <<train>>)>> ELSE <<>>)
          \o (IF In(dev, groups)
              THEN <<FilterPeopleProtocol(Db, q, <<test>>)>> ELSE <<>>)))
      ELSE IF In(world, groups) /\ subworld.t = "none"
      THEN Raise("KeyError")
      ELSE Return(Collect(
             (IF In(world, groups)
              THEN <<FilterPeopleProtocol(Db, q, __world_for__(protocol, subworld.v))>>
              ELSE <<>>)
          \o (IF In(dev, groups)
              THEN <<FilterPeopleProtocol(Db, q, __dev_for__(protocol))>> ELSE <<>>)
          \o (IF In(eval, groups)
              THEN <<FilterPeopleProtocol(Db, q, <<protocol>>)>> ELSE <<>>)))

clients(protocol, groups, subworld) ==
  IF ~is_valid THEN Raise("RuntimeError")
  ELSE IF __check_single__(protocol, m_valid_protocols) # "ok" THEN Raise("ValueError")
  ELSE LET g == __check_validity__(groups, m_valid_groups)
       IN  IF g.exc # "none" THEN g
           ELSE IF /\ subworld.t # "none"
                   /\ __check_single__(subworld, m_subworld_keys) # "ok"
           THEN Raise("ValueError")
           ELSE ClientsBody(protocol.v, g.val, subworld)

\* the body of models() after its checks
ModelsBody(protocol, groups, subworld) ==
  IF protocol = view1
  THEN Return(Collect(
         (IF In(world, groups)
          THEN <<FilterPairProtocol(Db, FileJoinPairEither(Db), <<train>>)>> ELSE <<>>)
      \o (IF In(dev, groups)
          THEN <<FilterPairProtocol(Db, FileJoinPairEnrol(Db), <<test>>)>> ELSE <<>>)))
  ELSE IF In(world, groups) /\ subworld.t = "none"
  THEN Raise("KeyError")
  ELSE Return(Collect(
         (IF In(world, groups)
          THEN <<FilterPairProtocol(Db, FileJoinPairEither(Db),
                                    __world_for__(protocol, subworld.v))>>
          ELSE <<>>)
      \o (IF In(dev, groups)
          THEN <<FilterPairProtocol(Db, FileJoinPairEnrol(Db), __dev_for__(protocol))>>
          ELSE <<>>)
      \o (IF In(eval, groups)
          THEN <<FilterPairProtocol(Db, FileJoinPairEnrol(Db), <<protocol>>)>>
          ELSE <<>>)))

models(protocol, groups, subworld) ==
  IF ~is_valid THEN Raise("RuntimeError")
  ELSE IF __check_single__(protocol, m_valid_protocols) # "ok" THEN Raise("ValueError")
  ELSE LET g == __check_validity__(groups, m_valid_groups)
       IN  IF g.exc # "none" THEN g
           ELSE IF /\ subworld.t # "none"
                   /\ __check_single__(subworld, m_subworld_keys) # "ok"
           THEN Raise("ValueError")
           ELSE ModelsBody(protocol.v, g.val, subworld)

get_client_id_from_file_id(file_id) ==
  IF ~is_valid THEN Raise("RuntimeError")
  ELSE LET q == {f \in Db.file : file_id.t = "str" /\ f.id = file_id.v}
       IN  IF Cardinality(q) # 1 THEN Raise("AssertionError")
           ELSE Return((CHOOSE f \in q : TRUE).client_id)

get_client_id_from_model_id(model_id) == get_client_id_from_file_id(model_id)

\* "queries" of objects(): the world files and the enrol files
ObjectsQueries(protocol, groups, purposes, subworld, world_type) ==
  IF protocol = view1
  THEN (IF In(world, groups)
        THEN <<IF world_type = restricted
               THEN FilterPairProtocol(Db, FileJoinPairEither(Db), <<train>>)
               ELSE FilterPeopleProtocol(Db, FileJoinPeople(Db), <<train>>)>>
        ELSE <<>>)
    \o (IF In(dev, groups) /\ In(enrol, purposes)
        THEN <<FilterPairProtocol(Db, FileJoinPairEnrol(Db), <<test>>)>>
        ELSE <<>>)
  ELSE (IF In(world, groups)
        THEN <<IF world_type = restricted
               THEN FilterPairProtocol(Db, FileJoinPairEither(Db),
                                       __world_for__(protocol, subworld.v))
               ELSE FilterPeopleProtocol(Db, FileJoinPeople(Db),
                                         __world_for__(protocol, subworld.v))>>
        ELSE <<>>)
    \o (IF In(dev, groups) /\ In(enrol, purposes)
        THEN <<FilterPairProtocol(Db, FileJoinPairEnrol(Db), __dev_for__(protocol))>>
        ELSE <<>>)
    \o (IF In(eval, groups) /\ In(enrol, purposes)
        THEN <<FilterPairProtocol(Db, FileJoinPairEnrol(Db), <<protocol>>)>>
        ELSE <<>>)

\* "probe_queries" of objects()
ObjectsProbeQueries(protocol, groups, purposes) ==
  IF protocol = view1
  THEN (IF In(dev, groups) /\ In(probe, purposes)
        THEN <<FilterPairProtocol(Db, FileJoinPairProbe(Db), <<test>>)>>
        ELSE <<>>)
  ELSE (IF In(dev, groups) /\ In(probe, purposes)
        THEN <<FilterPairProtocol(Db, FileJoinPairProbe(Db), __dev_for__(protocol))>>
        ELSE <<>>)
    \o (IF In(eval, groups) /\ In(probe, purposes)
        THEN <<FilterPairProtocol(Db, FileJoinPairProbe(Db), <<protocol>>)>>
        ELSE <<>>)

\* the two collecting loops of objects()
ObjectsCollect(queries, probe_queries, model_ids) ==
  LET f(q) == IF Truthy(model_ids) THEN FilterFileId(q, model_ids.v) ELSE q
      p(q) == IF Truthy(model_ids) THEN FilterAliasId(q, model_ids.v) ELSE q
  IN  Collect(Map(f, queries)) (+) Collect(Map(p, probe_queries))

\* the body of objects() with the purposes left out of account
ObjectsBodyAllPurposes(protocol, model_ids, groups, purposes, subworld, world_type) ==
  IF protocol # view1 /\ In(world, groups) /\ subworld.t = "none"
  THEN Raise("KeyError")
  ELSE Return(ObjectsCollect(
         ObjectsQueries(protocol, groups, m_valid_purposes, subworld, world_type),
         ObjectsProbeQueries(protocol, groups, m_valid_purposes),
         IF model_ids.t = "str" THEN Tuple(<<model_ids.v>>) ELSE model_ids))

\* the body of objects() taking the world files for world_type
\* 'unrestricted' whatever the groups
ObjectsBodyWorldOr(protocol, model_ids, groups, purposes, subworld, world_type) ==
  LET gs == IF world_type = unrestricted /\ ~In(world, groups)
            THEN <<world>> \o groups ELSE groups
  IN  IF protocol # view1 /\ In(world, gs) /\ subworld.t = "none"
      THEN Raise("KeyError")
      ELSE Return(ObjectsCollect(
             ObjectsQueries(protocol, gs, purposes, subworld, world_type),
             ObjectsProbeQueries(protocol, gs, purposes),
             IF model_ids.t = "str" THEN Tuple(<<model_ids.v>>) ELSE model_ids))

\* the body of objects() after its checks
ObjectsBody(protocol, model_ids, groups, purposes, subworld, world_type) ==
  IF protocol # view1 /\ In(world, groups) /\ subworld.t = "none"
  THEN Raise("KeyError")
  ELSE Return(ObjectsCollect(
         ObjectsQueries(protocol, groups, purposes, subworld, world_type),
         ObjectsProbeQueries(protocol, groups, purposes),
         IF model_ids.t = "str" THEN Tuple(<<model_ids.v>>) ELSE model_ids))

objects(protocol, model_ids, groups, purposes, subworld, world_type) ==
  IF ~is_valid THEN Raise("RuntimeError")
  ELSE IF __check_single__(protocol, m_valid_protocols) # "ok" THEN Raise("ValueError")
  ELSE LET g == __check_validity__(groups, m_valid_groups)
           p == __check_validity__(purposes, m_valid_purposes)
       IN  IF g.exc # "none" THEN g
           ELSE IF p.exc # "none" THEN p
           ELSE IF __check_single__(world_type, m_valid_types) # "ok"
           THEN Raise("ValueError")
           ELSE IF /\ subworld.t # "none"
                   /\ __check_single__(subworld, m_subworld_keys) # "ok"
           THEN Raise("ValueError")
           ELSE ObjectsBody(protocol.v, model_ids, g.val, p.val, subworld, world_type.v)

\* "queries" of pairs() with the test pairs of view1 taken for 'eval' too
PairsQueriesView1Eval(protocol, groups, subworld) ==
  IF protocol = view1
  THEN (IF In(world, groups)
        THEN <<FilterPairProtocol(Db, PairJoinFiles(Db), <<train>>)>> ELSE <<>>)
    \o (IF In(dev, groups) \/ In(eval, groups)
        THEN <<FilterPairProtocol(Db, PairJoinFiles(Db), <<test>>)>> ELSE <<>>)
  ELSE (IF In(world, groups)
        THEN <<FilterPairProtocol(Db, PairJoinFiles(Db),
                                  __world_for__(protocol, subworld.v))>>
        ELSE <<>>)
    \o (IF In(dev, groups)
        THEN <<FilterPairProtocol(Db, PairJoinFiles(Db), __dev_for__(protocol))>>
        ELSE <<>>)
    \o (IF In(eval, groups)
        THEN <<FilterPairProtocol(Db, PairJoinFiles(Db), <<protocol>>)>>
        ELSE <<>>)

\* "queries" of pairs()
PairsQueries(protocol, groups, subworld) ==
  IF protocol = view1
  THEN (IF In(world, groups)
        THEN <<FilterPairProtocol(Db, PairJoinFiles(Db), <<train>>)>> ELSE <<>>)
    \o (IF In(dev, groups)
        THEN <<FilterPairProtocol(Db, PairJoinFiles(Db), <<test>>)>> ELSE <<>>)
  ELSE (IF In(world, groups)
        THEN <<FilterPairProtocol(Db, PairJoinFiles(Db),
                                  __world_for__(protocol, subworld.v))>>
        ELSE <<>>)
    \o (IF In(dev, groups)
        THEN <<FilterPairProtocol(Db, PairJoinFiles(Db), __dev_for__(protocol))>>
        ELSE <<>>)
    \o (IF In(eval, groups)
        THEN <<FilterPairProtocol(Db, PairJoinFiles(Db), <<protocol>>)>>
        ELSE <<>>)

\* the class filters with the two tests exchanged
PairsCollectSwapped(queries, classes) ==
  LET f(q) ==
        LET q1 == IF ~In(unmatched, classes) THEN FilterIsMatch(Db, q, FALSE) ELSE q
        IN  IF ~In(matched, classes) THEN FilterIsMatch(Db, q1, TRUE) ELSE q1
  IN  Collect(Map(f, queries))

\* the collecting loop of pairs(): the class filters
PairsCollect(queries, classes) ==
  LET f(q) ==
        LET q1 == IF ~In(matched, classes) THEN FilterIsMatch(Db, q, FALSE) ELSE q
        IN  IF ~In(unmatched, classes) THEN FilterIsMatch(Db, q1, TRUE) ELSE q1
  IN  Collect(Map(f, queries))

\* the body of pairs() after its checks
PairsBody(protocol, groups, classes, subworld) ==
  IF protocol # view1 /\ In(world, groups) /\ subworld.t = "none"
  THEN Raise("KeyError")
  ELSE Return(PairsCollect(PairsQueries(protocol, groups, subworld), classes))

pairs(protocol, groups, classes, subworld) ==
  IF ~is_valid THEN Raise("RuntimeError")
  ELSE IF __check_single__(protocol, m_valid_protocols) # "ok" THEN Raise("ValueError")
  ELSE LET g == __check_validity__(groups, m_valid_groups)
           c == __check_validity__(classes, m_valid_classes)
       IN  IF g.exc # "none" THEN g
           ELSE IF c.exc # "none" THEN c
           ELSE IF /\ subworld.t # "none"
                   /\ __check_single__(subworld, m_subworld_keys) # "ok"
           THEN Raise("ValueError")
           ELSE PairsBody(protocol.v, g.val, c.val, subworld)

\* paths() and reverse() read self.session, an attribute the class never sets
paths(file_ids) ==
  IF ~is_valid THEN Raise("RuntimeError") ELSE Raise("AttributeError")

reverse(path_list) ==
  IF ~is_valid THEN Raise("RuntimeError") ELSE Raise("AttributeError")

(***************************************************************************)
(* The files create() reads.  The image directory is fixed; the protocol   *)
(* text files are drawn, line by line, from the lines below.               *)
(***************************************************************************)
A == <<"A">>
B == <<"B">>

\* all_images/<client>/<file>.jpg, as sorted(os.listdir(...)) yields them
ImageDir ==
  << [dir |-> A, files |-> << <<"A", "_", "0", "0", "0", "1">>,
                              <<"A", "_", "0", "0", "0", "2">> >>],
     [dir |-> B, files |-> << <<"B", "_", "0", "0", "0", "1">> >>] >>

\* the files that have a funneled annotation file (.jpg.pts)
AnnotationFiles == { <<"A", "_", "0", "0", "0", "1">> }

\* a people line (a name and a number of images); a matched pairs line (a
\* name and two image numbers); an unmatched pairs line (two names, each
\* with an image number)
PeopleLines == { <<A, <<"2">> >> }
PairsLines == { <<A, <<"1">>, <<"2">> >>, <<A, <<"1">>, B, <<"1">> >> }

\* the folds of view 2 whose lists may be non-empty; the queries range over
\* all ten protocols, so a row of fold1 or fold10 takes every position of
\* the rotation, the wrap from fold10 to fold1 included
ListedFolds == {1, 10}

\* where a line may be put: list "people" or "pairs"; view 1 part 1 is the
\* DevTrain file and part 2 the DevTest file; view 2 part f is fold f
Places ==
  {[list |-> l, view |-> 1, part |-> p] : l \in {"people", "pairs"}, p \in {1, 2}}
    \cup {[list |-> l, view |-> 2, part |-> f] : l \in {"people", "pairs"}, f \in ListedFolds}

Placements ==
  {[place |-> pl, line |-> ln] : <<pl, ln>> \in
     {x \in Places \X (PeopleLines \cup PairsLines) :
        (x[1].list = "people") <=> (x[2] \in PeopleLines)}}

\* sequences over S of length at most n
SeqUpTo(S, n) == UNION {[1..k -> S] : k \in 0..n}

\* the lines put at a place, in the order given
LinesAt(ps, l, v, p) ==
  LET at(x) == x.place = [list |-> l, view |-> v, part |-> p]
      sel == SelectSeq(ps, at)
  IN  [i \in 1..Len(sel) |-> sel[i].line]

\* view2/people.txt: the number of folds, then for each fold the number of
\* its people and one line for each of them
RECURSIVE PeopleTxt(_, _)
PeopleTxt(ps, f) ==
  IF f > 10 THEN <<>>
  ELSE << <<DecStr(Len(LinesAt(ps, "people", 2, f)))>> >>
         \o LinesAt(ps, "people", 2, f) \o PeopleTxt(ps, f + 1)

BaseDirOf(ps) ==
  [peopleDevTrain |-> LinesAt(ps, "people", 1, 1),
   peopleDevTest  |-> LinesAt(ps, "people", 1, 2),
   people         |-> << <<DecStr(10)>> >> \o PeopleTxt(ps, 1),
   pairsDevTrain  |-> LinesAt(ps, "pairs", 1, 1),
   pairsDevTest   |-> LinesAt(ps, "pairs", 1, 2),
   pairs_fold     |-> [f \in 1..10 |-> LinesAt(ps, "pairs", 2, f)]]

BaseDirs == {BaseDirOf(ps) : ps \in SeqUpTo(Placements, MaxLines)}

\* lines that name a file the image directory does not hold: B has one image
MissingPeopleLines == { <<B, <<"2">> >> }
MissingPairsLines == { <<B, <<"1">>, <<"2">> >> }

\* the text files create() may find: lines that name missing files included
PlacementsRead ==
  {[place |-> pl, line |-> ln] : <<pl, ln>> \in
     {x \in Places \X (PeopleLines \cup MissingPeopleLines
                          \cup PairsLines \cup MissingPairsLines) :
        (x[1].list = "people") <=> (x[2] \in PeopleLines \cup MissingPeopleLines)}}

BaseDirsRead == {BaseDirOf(ps) : ps \in SeqUpTo(PlacementsRead, MaxLines)}

\* the lists add_people reads, and those add_pairs reads
PeoplePart(bd) == <<bd.peopleDevTrain, bd.peopleDevTest, bd.people>>
PairsPart(bd) == <<bd.pairsDevTrain, bd.pairsDevTest, bd.pairs_fold>>

(***************************************************************************)
(* create.py: the ingestion.                                               *)
(***************************************************************************)
\* the index of the last "_" of a file's base name
LastUnderscore(s) == CHOOSE i \in 1..Len(s) :
  s[i] = "_" /\ \A j \in (i + 1)..Len(s) : s[j] # "_"

\* add_file: the File row of a file name without its extension
add_file(base_name) ==
  LET shot_id == SubSeq(base_name, LastUnderscore(base_name) + 1, Len(base_name))
      client_id == SubSeq(base_name, 1, Len(base_name) - Len(shot_id) - 1)
  IN  File(client_id, shot_id)

\* add_files: a Client for each directory, a File for each image in it
add_files(t) ==
  [t EXCEPT
     !.client = {ImageDir[i].dir : i \in DOMAIN ImageDir},
     !.file = UNION {{add_file(ImageDir[i].files[j]) : j \in DOMAIN ImageDir[i].files} :
                       i \in DOMAIN ImageDir}]

\* filename(client_id, shot_id): the name the File rows are looked up by
filename(client_id, shot_id) ==
  LET s == DecStr(shot_id)
  IN  client_id \o <<"_">> \o [i \in 1..(4 - Len(s)) |-> "0"] \o s

\* session.query(File).filter(File.name == name).first().id
FileIdByName(t, name) ==
  IF \E f \in t.file : f.id = name THEN Return(name) ELSE Raise("AttributeError")

\* add_client of add_people: a People row for each of the client's first
\* count images
RECURSIVE add_client(_, _, _, _, _)
add_client(t, protocol, client_id, i, count) ==
  IF i > count THEN Return(<<>>)
  ELSE LET id == FileIdByName(t, filename(client_id, i))
           rest == add_client(t, protocol, client_id, i + 1, count)
       IN  IF id.exc # "none" THEN id
           ELSE IF rest.exc # "none" THEN rest
           ELSE Return(<<People(protocol, id.val)>> \o rest.val)

RECURSIVE parse_view1(_, _, _)
parse_view1(t, lines, protocol) ==
  IF lines = <<>> THEN Return(<<>>)
  ELSE LET llist == Head(lines)
           rows == IF Len(llist) = 2
                   THEN add_client(t, protocol, llist[1], 1, ParseInt(llist[2]))
                   ELSE Return(<<>>)
           rest == parse_view1(t, Tail(lines), protocol)
       IN  IF rows.exc # "none" THEN rows
           ELSE IF rest.exc # "none" THEN rest
           ELSE Return(rows.val \o rest.val)

\* parse_view2: protocol is unbound (<<>>) before the first one-word line
RECURSIVE parse_view2(_, _, _, _)
parse_view2(t, lines, fold_id, protocol) ==
  IF lines = <<>> THEN Return(<<>>)
  ELSE LET llist == Head(lines)
       IN  IF Len(llist) = 1
           THEN parse_view2(t, Tail(lines), fold_id + 1, FoldName(fold_id))
           ELSE IF Len(llist) # 2
           THEN parse_view2(t, Tail(lines), fold_id, protocol)
           ELSE IF protocol = <<>> THEN Raise("UnboundLocalError")
           ELSE LET n == ParseInt(llist[2])
                    r1 == add_client(t, protocol, llist[1], 1, n)
                    r2 == add_client(t, view2, llist[1], 1, n)
                    rest == parse_view2(t, Tail(lines), fold_id, protocol)
                IN  IF r1.exc # "none" THEN r1
                    ELSE IF r2.exc # "none" THEN r2
                    ELSE IF rest.exc # "none" THEN rest
                    ELSE Return(r1.val \o r2.val \o rest.val)

\* one outcome after another: the rows of both, or the first exception
Then(r1, r2) ==
  IF r1.exc # "none" THEN r1
  ELSE IF r2.exc # "none" THEN r2
  ELSE Return(r1.val \o r2.val)

\* add_people: the People rows, or the exception that ends it
add_people(t, bd) ==
  Then(parse_view1(t, bd.peopleDevTrain, train),
  Then(parse_view1(t, bd.peopleDevTest, test),
       parse_view2(t, bd.people, 0, <<>>)))

\* parse_file of add_pairs
RECURSIVE parse_file(_, _, _)
parse_file(t, lines, protocol) ==
  IF lines = <<>> THEN Return(<<>>)
  ELSE LET llist == Head(lines)
           id1 == FileIdByName(t, filename(llist[1], ParseInt(llist[2])))
           id2 == IF Len(llist) = 3
                  THEN FileIdByName(t, filename(llist[1], ParseInt(llist[3])))
                  ELSE FileIdByName(t, filename(llist[3], ParseInt(llist[4])))
           row == IF Len(llist) \notin {3, 4} THEN Return(<<>>)
                  ELSE IF id1.exc # "none" THEN id1
                  ELSE IF id2.exc # "none" THEN id2
                  ELSE Return(<<Pair(protocol, id1.val, id2.val, Len(llist) = 3)>>)
       IN  Then(row, parse_file(t, Tail(lines), protocol))

\* the loop of add_pairs over the folds of view 2
RECURSIVE PairsOfFolds(_, _, _)
PairsOfFolds(t, bd, fold) ==
  IF fold > 10 THEN Return(<<>>)
  ELSE Then(parse_file(t, bd.pairs_fold[fold], FoldName(fold)),
       Then(parse_file(t, bd.pairs_fold[fold], view2),
            PairsOfFolds(t, bd, fold + 1)))

\* add_pairs: the Pair rows, or the exception that ends it
add_pairs(t, bd) ==
  Then(parse_file(t, bd.pairsDevTrain, train),
  Then(parse_file(t, bd.pairsDevTest, test),
       PairsOfFolds(t, bd, 1)))

\* add_annotations: an Annotation for each File whose annotation file exists
add_annotations(t, annotation_type) ==
  [t EXCEPT !.annotation =
     @ \cup {[file_id |-> f.id, type |-> annotation_type] :
               f \in {g \in t.file : g.id \in AnnotationFiles}}]

(***************************************************************************)
(* create(): its steps, one action each.  cpc names the last step done.    *)
(* The rows added to the session are committed by the last step only; an   *)
(* exception in a step ends create() with nothing committed.               *)
(***************************************************************************)
\* create(), up to create_tables: with recreate an existing file is unlinked;
\* the engine then creates the file and its (empty) tables if there is none
CreateTables ==
  /\ cpc = "start"
  /\ \E recreate \in BOOLEAN :
       LET kept == IF recreate THEN NoFile ELSE disk
       IN  disk' = IF kept.exists THEN kept ELSE DbFile(EmptyTables)
  /\ sess' = EmptyTables
  /\ cpc' = "create_tables"
  /\ UNCHANGED <<basedir, m_session, last>>

AddFiles ==
  /\ cpc = "create_tables"
  /\ sess' = add_files(sess)
  /\ cpc' = "add_files"
  /\ UNCHANGED <<basedir, disk, m_session, last>>

\* add_people committing the rows it adds
AddPeopleCommitting ==
  /\ cpc = "add_files"
  /\ \E bd \in BaseDirsRead :
       /\ PairsPart(bd) = PairsPart(basedir)
       /\ basedir' = bd
       /\ LET r == add_people(sess, bd)
          IN  IF r.exc = "none"
              THEN /\ sess' = [sess EXCEPT !.people = @ \o r.val]
                   /\ disk' = DbFile(sess')
                   /\ cpc' = "add_people"
              ELSE /\ sess' = EmptyTables
                   /\ disk' = DbFile(sess)
                   /\ cpc' = "raised"
  /\ UNCHANGED <<m_session, last>>

\* add_people reads the people lists
AddPeople ==
  /\ cpc = "add_files"
  /\ \E bd \in BaseDirsRead :
       /\ PairsPart(bd) = PairsPart(basedir)
       /\ basedir' = bd
       /\ LET r == add_people(sess, bd)
          IN  IF r.exc = "none"
              THEN sess' = [sess EXCEPT !.people = @ \o r.val] /\ cpc' = "add_people"
              ELSE sess' = EmptyTables /\ cpc' = "raised"
  /\ UNCHANGED <<disk, m_session, last>>

\* add_pairs reads the pairs lists
AddPairs ==
  /\ cpc = "add_people"
  /\ \E bd \in BaseDirsRead :
       /\ PeoplePart(bd) = PeoplePart(basedir)
       /\ basedir' = bd
       /\ LET r == add_pairs(sess, bd)
          IN  IF r.exc = "none"
              THEN sess' = [sess EXCEPT !.pair = @ \o r.val] /\ cpc' = "add_pairs"
              ELSE sess' = EmptyTables /\ cpc' = "raised"
  /\ UNCHANGED <<disk, m_session, last>>

\* the default annotation_types: ['funneled']
AddAnnotations ==
  /\ cpc = "add_pairs"
  /\ sess' = add_annotations(sess, "funneled")
  /\ cpc' = "add_annotations"
  /\ UNCHANGED <<basedir, disk, m_session, last>>

\* s.commit(); s.close()
Commit ==
  /\ cpc = "add_annotations"
  /\ disk' = DbFile(sess)
  /\ sess' = EmptyTables
  /\ cpc' = "commit"
  /\ UNCHANGED <<basedir, m_session, last>>

(***************************************************************************)
(* The Database object.                                                    *)
(***************************************************************************)
\* Database.connect (and Database.__init__, which calls it)
Connect ==
  /\ m_session' = IF disk.exists THEN "open" ELSE "None"
  /\ UNCHANGED <<basedir, disk, cpc, sess, last>>

\* a call of a method of the query layer; the arguments a method does not
\* take are None
Call(op, protocol, model_ids, groups, purposes, classes, subworld, world_type, arg) ==
  [op |-> op, protocol |-> protocol, model_ids |-> model_ids, groups |-> groups,
   purposes |-> purposes, classes |-> classes, subworld |-> subworld,
   world_type |-> world_type, arg |-> arg]

NoCall == Call("none", None, None, None, None, None, None, None, None)

\* what the call returns or raises in the current state
Outcome(c) ==
  CASE c.op = "clients" -> clients(c.protocol, c.groups, c.subworld)
    [] c.op = "models" -> models(c.protocol, c.groups, c.subworld)
    [] c.op = "objects" ->
         objects(c.protocol, c.model_ids, c.groups, c.purposes, c.subworld, c.world_type)
    [] c.op = "pairs" -> pairs(c.protocol, c.groups, c.classes, c.subworld)
    [] c.op = "get_client_id_from_file_id" -> get_client_id_from_file_id(c.arg)
    [] c.op = "get_client_id_from_model_id" -> get_client_id_from_model_id(c.arg)
    [] c.op = "paths" -> paths(c.arg)
    [] c.op = "reverse" -> reverse(c.arg)

NoLast == [call |-> NoCall, ret |-> Raise("none")]

\* a call whose exception leaves the Database object without its session
QueryInvalidating(c) ==
  /\ last = NoLast
  /\ last' = [call |-> c, ret |-> Outcome(c)]
  /\ m_session' = IF Outcome(c).exc = "none" THEN m_session ELSE "None"
  /\ UNCHANGED <<basedir, disk, cpc, sess>>

\* the caller makes a call and holds its outcome: the query layer itself
\* writes nothing
Query(c) ==
  /\ last = NoLast
  /\ last' = [call |-> c, ret |-> Outcome(c)]
  /\ UNCHANGED <<basedir, disk, cpc, sess, m_session>>

\* the caller is done with the outcome and may call again
Discard ==
  /\ last # NoLast
  /\ last' = NoLast
  /\ UNCHANGED <<basedir, disk, cpc, sess, m_session>>

(***************************************************************************)
(* The arguments the calls are made with.                                  *)
(***************************************************************************)
SeqToSet(q) == {q[i] : i \in DOMAIN q}
StrsOf(q) == {Str(x) : x \in SeqToSet(q)}

A_0001 == <<"A", "_", "0", "0", "0", "1">>
A_0002 == <<"A", "_", "0", "0", "0", "2">>
B_0001 == <<"B", "_", "0", "0", "0", "1">>

ProtocolArgs == StrsOf(m_valid_protocols)
BadProtocolArgs == {None, Str(view2), Str(train), Tuple(<<fold1>>)}
GroupsArgs ==
  StrsOf(m_valid_groups)
    \cup {None, Tuple(<<>>), Tuple(<<world, dev>>), Tuple(<<dev, eval>>),
          Tuple(<<eval, dev, world>>)}
BadGroupsArgs == {Str(test), Tuple(<<dev, train>>)}
PurposesArgs == StrsOf(m_valid_purposes) \cup {None, Tuple(<<enrol, probe>>)}
BadPurposesArgs == {Str(dev), Tuple(<<probe, world>>)}
ClassesArgs == StrsOf(m_valid_classes) \cup {None, Tuple(<<unmatched, matched>>)}
BadClassesArgs == {Str(<<"m", "a", "t", "c", "h">>), Tuple(<<matched, enrol>>)}
SubworldArgs == StrsOf(m_subworld_keys) \cup {None}
BadSubworldArgs == {Str(<<"e", "i", "g", "h", "t">> \o folds_), Tuple(<<onefolds>>)}
WorldTypeArgs == StrsOf(m_valid_types)
BadWorldTypeArgs == {None, Str(world)}
ModelIdsArgs == {None, Str(A_0001), Tuple(<<A_0002, B_0001>>), Tuple(<<>>)}
FileIdArgs == {None, Str(A_0001), Str(B_0001), Str(<<"C", "_", "0", "0", "0", "1">>)}

(***************************************************************************)
(* The calls of the specifications.                                        *)
(***************************************************************************)
ClientsCalls(P, G, S) ==
  {Call("clients", p, None, g, None, None, s, None, None) :
     p \in P, g \in G, s \in S}
ModelsCalls(P, G, S) ==
  {Call("models", p, None, g, None, None, s, None, None) :
     p \in P, g \in G, s \in S}
ObjectsCalls(P, M, G, U, S, W) ==
  {Call("objects", p, m, g, u, None, s, w, None) :
     p \in P, m \in M, g \in G, u \in U, s \in S, w \in W}
PairsCalls(P, G, C, S) ==
  {Call("pairs", p, None, g, None, c, s, None, None) :
     p \in P, g \in G, c \in C, s \in S}
ArgCalls(op, X) ==
  {Call(op, None, None, None, None, None, None, None, x) : x \in X}

\* the calls of Spec: every method, each argument valid or invalid
MainP == {Str(fold3), Str(view2)}
MainG == {Str(world), Tuple(<<dev, train>>)}
MainS == {Str(sevenfolds), Tuple(<<onefolds>>)}
MainCalls ==
  ClientsCalls(MainP, MainG, MainS)
    \cup ModelsCalls(MainP, MainG, MainS)
    \cup ObjectsCalls(MainP, {None}, MainG, {Str(probe), Str(dev)}, MainS,
                      {Str(restricted), Str(world)})
    \cup PairsCalls(MainP, MainG, {Str(matched), Tuple(<<matched, enrol>>)}, MainS)
    \cup ArgCalls("get_client_id_from_file_id", FileIdArgs)
    \cup ArgCalls("get_client_id_from_model_id", FileIdArgs)
    \cup ArgCalls("paths", {Tuple(<<A_0001>>), Tuple(<<>>)})
    \cup ArgCalls("reverse", {Tuple(<<A \o <<"/">> \o A_0001>>), None})

(***************************************************************************)
(* Spec: create() step by step, beside a Database object that connects     *)
(* and is queried at any time.                                             *)
(***************************************************************************)
Init ==
  /\ basedir = BaseDirOf(<<>>)
  /\ disk = NoFile
  /\ cpc = "start"
  /\ sess = EmptyTables
  /\ m_session = "None"
  /\ last = NoLast

MainQuery == \E c \in MainCalls : Query(c)

Next ==
  \/ CreateTables
  \/ AddFiles
  \/ AddPeople
  \/ AddPairs
  \/ AddAnnotations
  \/ Commit
  \/ Connect
  \/ MainQuery
  \/ Discard

Spec == Init /\ [][Next]_vars

(***************************************************************************)
(* The specifications of the query layer alone: create() has run on some   *)
(* input, the Database object is connected, and calls are made.            *)
(***************************************************************************)
\* the tables create() commits for the text files bd
create(bd) ==
  LET t1 == add_files(EmptyTables)
      pe == add_people(t1, bd)
      t2 == [t1 EXCEPT !.people = @ \o pe.val]
      pa == add_pairs(t2, bd)
      t3 == [t2 EXCEPT !.pair = @ \o pa.val]
  IN  IF pe.exc # "none" \/ pa.exc # "none" THEN EmptyTables
      ELSE add_annotations(t3, "funneled")

InitCreated ==
  /\ basedir \in BaseDirs
  /\ disk = DbFile(create(basedir))
  /\ cpc = "commit"
  /\ sess = EmptyTables
  /\ m_session = "open"
  /\ last = NoLast

\* SpecChecks: the four list methods, each argument valid or invalid
ChecksP == {Str(fold10)} \cup BadProtocolArgs
ChecksG == {Str(world), Tuple(<<dev, eval>>)} \cup BadGroupsArgs
ChecksS == {Str(sevenfolds), None} \cup BadSubworldArgs
ChecksCalls ==
  ClientsCalls(ChecksP, ChecksG, ChecksS)
    \cup ModelsCalls(ChecksP, ChecksG, ChecksS)
    \cup ObjectsCalls(ChecksP, {None}, ChecksG, {Str(probe)} \cup BadPurposesArgs,
                      ChecksS, {Str(restricted)} \cup BadWorldTypeArgs)
    \cup PairsCalls(ChecksP, ChecksG, {Str(matched)} \cup BadClassesArgs, ChecksS)

ChecksQuery == \E c \in ChecksCalls : Query(c)
NextChecks == ChecksQuery \/ Discard
SpecChecks == InitCreated /\ [][NextChecks]_vars

\* SpecPairs: pairs() with valid arguments
PairsSpecCalls ==
  PairsCalls(ProtocolArgs, GroupsArgs, ClassesArgs, {Str(sevenfolds), Str(onefolds), None})
    \cup PairsCalls(ProtocolArgs, {Str(world)}, {None}, SubworldArgs)

PairsQuery == \E c \in PairsSpecCalls : Query(c)
NextPairs == PairsQuery \/ Discard
SpecPairs == InitCreated /\ [][NextPairs]_vars

\* SpecObjects: objects() with valid arguments, and the models() and
\* pairs() calls it is compared with
SingleGroups == StrsOf(m_valid_groups)
ObjectsSpecCalls ==
  ObjectsCalls(ProtocolArgs, {None}, {Str(world)}, {None, Str(enrol)},
               SubworldArgs, WorldTypeArgs)
    \cup ObjectsCalls(ProtocolArgs, {None, Str(A_0001), Tuple(<<A_0002, B_0001>>)},
                      {Str(dev), Str(eval)}, PurposesArgs,
                      {Str(sevenfolds), None}, {Str(restricted)})
    \cup ObjectsCalls(ProtocolArgs, {None}, {Str(dev), Str(eval)}, {Str(probe)},
                      {Str(onefolds)}, {Str(unrestricted)})
    \cup ObjectsCalls(ProtocolArgs, {None}, {Str(dev), Str(eval)}, {Str(enrol)},
                      SubworldArgs, {Str(restricted)})
    \cup ModelsCalls(ProtocolArgs, SingleGroups, {Str(sevenfolds)})
    \cup PairsCalls(ProtocolArgs, {Str(dev)}, {None}, {Str(sevenfolds)})

ObjectsQuery == \E c \in ObjectsSpecCalls : Query(c)
NextObjects == ObjectsQuery \/ Discard
SpecObjects == InitCreated /\ [][NextObjects]_vars

\* SpecView1: the four list methods with protocol 'view1'
View1S == {Str(sevenfolds), None}
View1Calls ==
  ClientsCalls({Str(view1)}, GroupsArgs, View1S)
    \cup ModelsCalls({Str(view1)}, GroupsArgs, View1S)
    \cup ObjectsCalls({Str(view1)}, {None, Str(A_0001)}, GroupsArgs, PurposesArgs,
                      View1S, WorldTypeArgs)
    \cup PairsCalls({Str(view1)}, GroupsArgs, ClassesArgs, View1S)

View1Query == \E c \in View1Calls : Query(c)
NextView1 == View1Query \/ Discard
SpecView1 == InitCreated /\ [][NextView1]_vars

(***************************************************************************)
(* The claims.                                                             *)
(***************************************************************************)
\* C1: a call of clients, models, objects, pairs, paths, reverse or
\* get_client_id_from_file_id made while m_session is None (no database
\* file at the last connect) raises RuntimeError, whatever its arguments,
\* valid or not: nothing is returned and no argument check comes first.
C1_MissingDatabaseRaises ==
  [][(/\ m_session = "None"
      /\ last = NoLast
      /\ last'.call.op \in {"clients", "models", "objects", "pairs", "paths", "reverse",
                            "get_client_id_from_file_id"})
       => last'.ret = Raise("RuntimeError")]_vars

\* C1 witness: create() has made the file since, the Database object has not
\* reconnected, and an objects() call with an invalid protocol has raised
\* RuntimeError.
C1_Witness ==
  /\ m_session = "None"
  /\ disk.exists
  /\ last.call.op = "objects"
  /\ last.call.protocol = Str(view2)
  /\ last.ret = Raise("RuntimeError")

\* the values an argument holds: the string itself, or the elements of the
\* tuple or list
Elems(x) == IF x.t = "str" THEN {x.v} ELSE IF x.t = "tuple" THEN SeqToSet(x.v) ELSE {}

\* C2's "outside its enumerated valid set", for the arguments of a call
OutsideValidSet(c) ==
  \/ c.protocol \notin StrsOf(m_valid_protocols)
  \/ c.subworld # None /\ c.subworld \notin StrsOf(m_subworld_keys)
  \/ c.op = "objects" /\ c.world_type \notin StrsOf(m_valid_types)
  \/ \E g \in Elems(c.groups) : g \notin SeqToSet(m_valid_groups)
  \/ c.op = "objects" /\ \E u \in Elems(c.purposes) : u \notin SeqToSet(m_valid_purposes)
  \/ c.op = "pairs" /\ \E k \in Elems(c.classes) : k \notin SeqToSet(m_valid_classes)

Folds == {FoldName(f) : f \in 1..10}

\* C3: for a pairs() call of a fold protocol with a subworld of count k that
\* asks for the world group, the world fold list of __world_for__ holds
\* exactly k distinct folds; it, the two dev folds of __dev_for__ and the
\* eval fold (the protocol) are pairwise disjoint; with 'sevenfolds' the
\* three together are the ten folds.
C3_FoldRotation ==
  (/\ last.call.op = "pairs"
   /\ last.call.protocol.v \in Folds
   /\ last.call.groups = Str(world)
   /\ last.call.subworld \in StrsOf(m_subworld_keys))
    => LET p == last.call.protocol.v
           k == m_subworld_counts(last.call.subworld.v)
           w == __world_for__(p, last.call.subworld.v)
           d == __dev_for__(p)
           W == SeqToSet(w)
           D == SeqToSet(d)
       IN  /\ Len(w) = k
           /\ Cardinality(W) = k
           /\ W \subseteq Folds
           /\ Cardinality(D) = 2
           /\ D \subseteq Folds
           /\ W \cap D = {}
           /\ p \notin W
           /\ p \notin D
           /\ (k = 7 => W \cup D \cup {p} = Folds)

\* C3 witness: pairs('fold5', groups='world') with the default subworld has
\* returned the pairs of fold1, a world fold reached through the wrap from
\* fold10.
C3_Witness ==
  /\ last.call.op = "pairs"
  /\ last.call.protocol = Str(fold5)
  /\ last.call.groups = Str(world)
  /\ last.call.subworld = Str(sevenfolds)
  /\ last.ret.exc = "none"
  /\ \E i \in DOMAIN Db.pair : Db.pair[i].protocol = fold1 /\ BagIn(i, last.ret.val)
  /\ In(fold1, __world_for__(fold5, sevenfolds))

\* the result of the last pairs() call had it been made for group g
OfGroup(g) ==
  IF last.call.groups = Str(g) THEN last.ret
  ELSE pairs(last.call.protocol, Str(g), last.call.classes, last.call.subworld)

\* the number of the three single-group results that hold Pair row i
TimesReturned(i) ==
  CopiesIn(i, OfGroup(world).val) + CopiesIn(i, OfGroup(dev).val)
    + CopiesIn(i, OfGroup(eval).val)

\* C4: with the default subworld and no class filter, for a fold protocol
\* every Pair row labelled fold1..fold10 is returned by exactly one of
\* pairs(p, 'world'), pairs(p, 'dev'), pairs(p, 'eval') and every row with
\* another label ('train', 'test', 'view2') by none; for view1,
\* pairs('world') is exactly the 'train' rows and pairs('dev') exactly the
\* 'test' rows.
C4_PairsPartition ==
  (/\ last.call.op = "pairs"
   /\ last.call.groups \in StrsOf(m_valid_groups)
   /\ last.call.classes = None
   /\ last.call.subworld = Str(sevenfolds))
    => IF last.call.protocol = Str(view1)
       THEN /\ OfGroup(world).val =
                 SetToBag({i \in DOMAIN Db.pair : Db.pair[i].protocol = train})
            /\ OfGroup(dev).val =
                 SetToBag({i \in DOMAIN Db.pair : Db.pair[i].protocol = test})
       ELSE \A i \in DOMAIN Db.pair :
              TimesReturned(i) = IF Db.pair[i].protocol \in Folds THEN 1 ELSE 0

\* C4 witness: the database holds pairs labelled fold1, view2 and train, and
\* pairs('fold3', groups='dev') has returned the fold1 pair.
C4_Witness ==
  /\ last.call.op = "pairs"
  /\ last.call.protocol = Str(fold3)
  /\ last.call.groups = Str(dev)
  /\ last.call.classes = None
  /\ last.call.subworld = Str(sevenfolds)
  /\ \E i, j, k \in DOMAIN Db.pair :
       /\ Db.pair[i].protocol = fold1
       /\ Db.pair[j].protocol = view2
       /\ Db.pair[k].protocol = train
       /\ last.ret.val = SetToBag({i})

\* the result of the last pairs() call had it been made with classes c
OfClasses(c) ==
  IF last.call.classes = c THEN last.ret
  ELSE pairs(last.call.protocol, last.call.groups, c, last.call.subworld)

\* the rows the queries of the last pairs() call select before the class
\* filters
Unfiltered ==
  Collect(PairsQueries(last.call.protocol.v,
                       __check_validity__(last.call.groups, m_valid_groups).val,
                       last.call.subworld))

\* C9: pairs() with classes='matched' returns pairs with is_match true only,
\* with classes='unmatched' pairs with is_match false only, and with classes
\* omitted or holding both values applies no class filter; for the same
\* protocol, groups and subworld the matched and the unmatched result are
\* disjoint and together hold exactly the pairs of the unfiltered result.
C9_ClassFilter ==
  (last.call.op = "pairs" /\ last.ret.exc = "none")
    => LET M == OfClasses(Str(matched)).val
           N == OfClasses(Str(unmatched)).val
           U == OfClasses(None).val
           BothGiven == OfClasses(Tuple(<<unmatched, matched>>)).val
       IN  /\ \A i \in BagToSet(M) : Db.pair[i].is_match
           /\ \A i \in BagToSet(N) : ~Db.pair[i].is_match
           /\ U = Unfiltered
           /\ BothGiven = Unfiltered
           /\ BagToSet(M) \cap BagToSet(N) = {}
           /\ M (+) N = U

\* C9 witness: the development pairs of fold3 are a matched and an unmatched
\* pair, and pairs('fold3', groups=('dev', 'eval'), classes='unmatched') has
\* returned the unmatched one alone.
C9_Witness ==
  /\ last.call.op = "pairs"
  /\ last.call.protocol = Str(fold3)
  /\ last.call.groups = Tuple(<<dev, eval>>)
  /\ last.call.classes = Str(unmatched)
  /\ \E i, j \in DOMAIN Db.pair :
       /\ Db.pair[i].protocol = fold1 /\ Db.pair[i].is_match
       /\ Db.pair[j].protocol = fold1 /\ ~Db.pair[j].is_match
       /\ last.ret.val = SetToBag({j})

\* C5: objects(protocol, groups=g, purposes='enrol') for a single group g,
\* world_type 'restricted' and no model_ids returns the same files, each as
\* often, as models(protocol, groups=g) with the same subworld; for
\* g='world' also with purposes omitted.
C5_EnrolObjectsAreModels ==
  (/\ last.call.op = "objects"
   /\ last.call.model_ids = None
   /\ last.call.groups \in StrsOf(m_valid_groups)
   /\ last.call.world_type = Str(restricted)
   /\ \/ last.call.purposes = Str(enrol)
      \/ last.call.groups = Str(world) /\ last.call.purposes = None)
    => last.ret = models(last.call.protocol, last.call.groups, last.call.subworld)

\* C5 witness: the development pair of fold3 has enrol file A_0001 and probe
\* file B_0001, and objects('fold3', groups='dev', purposes='enrol') has
\* returned A_0001 alone.
C5_Witness ==
  /\ last.call.op = "objects"
  /\ last.call.protocol = Str(fold3)
  /\ last.call.model_ids = None
  /\ last.call.groups = Str(dev)
  /\ last.call.purposes = Str(enrol)
  /\ last.call.world_type = Str(restricted)
  /\ \E i \in DOMAIN Db.pair :
       Db.pair[i] = Pair(fold1, A_0001, B_0001, FALSE)
  /\ last.ret = Return(SetToBag({A_0001}))

\* the loop of test02_objects: the probes of each development model, counted
RECURSIVE CountProbes(_, _)
CountProbes(p, ms) ==
  IF ms = {} THEN 0
  ELSE LET m == CHOOSE x \in ms : TRUE
           n == BagCardinality(objects(p, Tuple(<<m>>), Str(dev), Str(probe),
                                       Str(sevenfolds), Str(restricted)).val)
       IN  CopiesIn(m, models(p, Str(dev), Str(sevenfolds)).val) * n
             + CountProbes(p, ms \ {m})

current_probe_count(p) ==
  CountProbes(p, BagToSet(models(p, Str(dev), Str(sevenfolds)).val))

\* pairs(p, groups='dev') has been called
DevPairsCalled ==
  /\ last.call.op = "pairs"
  /\ last.call.groups = Str(dev)
  /\ last.call.classes = None
  /\ last.call.subworld = Str(sevenfolds)

\* the (enrol file, probe file) combinations of the pairs returned
Combinations(prs) ==
  {<<Db.pair[i].enrol_file_id, Db.pair[i].probe_file_id>> : i \in BagToSet(prs)}

\* C6 as stated: the probes of objects(p, groups='dev', purposes='probe',
\* model_ids=(m,)) summed over the models m of models(p, groups='dev') are
\* as many as the pairs of pairs(p, groups='dev').
C6_ProbesCountPairs ==
  DevPairsCalled
    => current_probe_count(last.call.protocol) = BagCardinality(last.ret.val)

\* C6 amended: the sum is the number of distinct (enrol file, probe file)
\* combinations among the pairs of pairs(p, groups='dev'); it is the number
\* of pairs when no two of them have the same enrol and the same probe file.
C6_ProbesCountCombinations ==
  DevPairsCalled
    => /\ current_probe_count(last.call.protocol)
            = Cardinality(Combinations(last.ret.val))
       /\ (\A i, j \in BagToSet(last.ret.val) :
             i # j => <<Db.pair[i].enrol_file_id, Db.pair[i].probe_file_id>>
                        # <<Db.pair[j].enrol_file_id, Db.pair[j].probe_file_id>>)
            => current_probe_count(last.call.protocol) = BagCardinality(last.ret.val)

\* C6 witness: pairs('fold3', groups='dev') has returned two pairs of
\* different files, and two probes are counted.
C6_Witness ==
  /\ DevPairsCalled
  /\ last.call.protocol = Str(fold3)
  /\ BagCardinality(last.ret.val) = 2
  /\ Cardinality(Combinations(last.ret.val)) = 2
  /\ current_probe_count(Str(fold3)) = 2

\* the other world_type
OtherType(w) == IF w = Str(restricted) THEN Str(unrestricted) ELSE Str(restricted)

\* C7: for groups='dev' and for groups='eval', whatever the protocol, the
\* purposes, the subworld and the model_ids, objects() returns the same with
\* world_type 'restricted' and with world_type 'unrestricted'.
C7_WorldTypeOnlyForWorld ==
  (/\ last.call.op = "objects"
   /\ last.call.groups \in {Str(dev), Str(eval)})
    => last.ret = objects(last.call.protocol, last.call.model_ids, last.call.groups,
                          last.call.purposes, last.call.subworld,
                          OtherType(last.call.world_type))

\* C7 witness: fold1 holds a pair and a People row of another file, so the
\* world group of fold5 differs with the world_type; objects('fold3',
\* groups='dev') with world_type 'restricted' has returned the two files of
\* the pair.
C7_Witness ==
  /\ last.call.op = "objects"
  /\ last.call.protocol = Str(fold3)
  /\ last.call.model_ids = None
  /\ last.call.groups = Str(dev)
  /\ last.call.purposes = None
  /\ last.call.world_type = Str(restricted)
  /\ last.ret.exc = "none"
  /\ BagCardinality(last.ret.val) = 2
  /\ objects(Str(fold5), None, Str(world), None, Str(sevenfolds), Str(restricted))
       # objects(Str(fold5), None, Str(world), None, Str(sevenfolds), Str(unrestricted))

\* the labels of the training set of a protocol: the world fold set
TrainingLabels(protocol, subworld) ==
  IF protocol = view1 THEN {train} ELSE SeqToSet(__world_for__(protocol, subworld))

\* the files that are enrol or probe file of a pair with one of the labels
FilesOfPairs(labels) ==
  {f \in FileIds(Db) : \E i \in DOMAIN Db.pair :
     /\ Db.pair[i].protocol \in labels
     /\ f \in {Db.pair[i].enrol_file_id, Db.pair[i].probe_file_id}}

\* the files that have a People row with one of the labels
FilesOfPeople(labels) ==
  {f \in FileIds(Db) : \E j \in DOMAIN Db.people :
     Db.people[j].protocol \in labels /\ Db.people[j].file_id = f}

\* C10: objects() for the world group returns, with world_type 'restricted',
\* exactly the files that are enrol or probe file of at least one training
\* pair (label 'train' for view1, a label of the world fold set for a fold
\* protocol) and, with world_type 'unrestricted', exactly the files that
\* have a People row with such a label; each file once.
C10_WorldFiles ==
  (/\ last.call.op = "objects"
   /\ last.call.groups = Str(world)
   /\ last.call.model_ids = None
   /\ last.ret.exc = "none")
    => LET labels == TrainingLabels(last.call.protocol.v, last.call.subworld.v)
       IN  last.ret.val =
             IF last.call.world_type = Str(restricted)
             THEN SetToBag(FilesOfPairs(labels))
             ELSE SetToBag(FilesOfPeople(labels))

\* C10 witness: fold1 lists the person A with two images and the pair of
\* A_0001 and B_0001; objects('fold5', groups='world',
\* world_type='unrestricted') has returned A's two files, not the pair's.
C10_Witness ==
  /\ last.call.op = "objects"
  /\ last.call.protocol = Str(fold5)
  /\ last.call.groups = Str(world)
  /\ last.call.subworld = Str(sevenfolds)
  /\ last.call.world_type = Str(unrestricted)
  /\ last.ret = Return(SetToBag({A_0001, A_0002}))
  /\ FilesOfPairs({fold1}) = {A_0001, B_0001}

\* 'eval' added to a groups argument: a string or a tuple
AddEval(g) ==
  IF g.t = "str" THEN Tuple(<<g.v, eval>>) ELSE Tuple(g.v \o <<eval>>)

\* the last call, a call of a list method with protocol 'view1'
View1Called ==
  /\ last.call.op \in {"clients", "models", "objects", "pairs"}
  /\ last.call.protocol = Str(view1)

\* C8 as stated: clients, models, objects and pairs called with protocol
\* 'view1' and groups='eval' return an empty list, and adding 'eval' to the
\* groups given to a view1 call never changes its result.
C8_View1EvalAdds ==
  View1Called
    => /\ last.call.groups = Str(eval) => last.ret = Return(EmptyBag)
       /\ last.call.groups # None
            => last.ret = Outcome([last.call EXCEPT !.groups = AddEval(@)])

\* C8 amended: clients, models, objects and pairs called with protocol
\* 'view1' and groups='eval' return an empty list, and adding 'eval' to
\* the groups of a view1 call that names at least one group does not change
\* its result.
C8_View1EvalAddsToGiven ==
  View1Called
    => /\ last.call.groups = Str(eval) => last.ret = Return(EmptyBag)
       /\ Truthy(last.call.groups)
            => last.ret = Outcome([last.call EXCEPT !.groups = AddEval(@)])

\* C8 witness: view1 has a train and a test pair; pairs('view1',
\* groups='eval') has returned the empty list, and pairs('view1',
\* groups=('dev', 'eval')) returns the test pair.
C8_Witness ==
  /\ last.call.op = "pairs"
  /\ last.call.protocol = Str(view1)
  /\ last.call.groups = Str(eval)
  /\ last.call.classes = None
  /\ last.ret = Return(EmptyBag)
  /\ \E i, j \in DOMAIN Db.pair :
       /\ Db.pair[i].protocol = train
       /\ Db.pair[j].protocol = test
       /\ pairs(Str(view1), Tuple(<<dev, eval>>), None, last.call.subworld)
            = Return(SetToBag({j}))

\* SpecModelIds: objects() with every kind of model_ids value
ModelIdsCalls ==
  ObjectsCalls(ProtocolArgs, ModelIdsArgs \cup {Str(<<>>)},
               {Str(world), Str(dev), Str(eval), Tuple(<<dev, eval>>)},
               PurposesArgs, {Str(sevenfolds)}, {Str(restricted)})
    \cup ObjectsCalls(ProtocolArgs, ModelIdsArgs, {Str(world)}, {None},
                      {Str(threefolds)}, {Str(unrestricted)})

ModelIdsQuery == \E c \in ModelIdsCalls : Query(c)
NextModelIds == ModelIdsQuery \/ Discard
SpecModelIds == InitCreated /\ [][NextModelIds]_vars

\* the ids a model_ids value provides: the string, or the elements of the
\* list or tuple
ProvidedIds(m) == IF m.t = "str" THEN {m.v} ELSE SeqToSet(m.v)

\* the Pair labels of the groups of an objects() call that have probes
ProbeLabels(protocol, groups) ==
  IF protocol = view1
  THEN (IF In(dev, groups) THEN {test} ELSE {})
  ELSE (IF In(dev, groups) THEN SeqToSet(__dev_for__(protocol)) ELSE {})
         \cup (IF In(eval, groups) THEN {protocol} ELSE {})

\* f is the probe file of a pair of the selected groups whose enrol file is
\* one of ids
ProbeOfModel(f, labels, ids) ==
  \E i \in DOMAIN Db.pair :
    /\ Db.pair[i].protocol \in labels
    /\ Db.pair[i].probe_file_id = f
    /\ Db.pair[i].enrol_file_id \in ids

\* C11: for every model_ids other than None (a string, or any list or
\* tuple of ids), every file objects() returns as world or enrol file has
\* its id in model_ids and every file it returns as probe is the probe file
\* of a pair of the selected groups whose enrol file id is in model_ids;
\* with model_ids None the queries are returned unfiltered.
C11_OnlyProvidedModels ==
  (last.call.op = "objects" /\ last.ret.exc = "none")
    => LET c == last.call
           g == __check_validity__(c.groups, m_valid_groups).val
           u == __check_validity__(c.purposes, m_valid_purposes).val
       IN  IF c.model_ids = None
           THEN last.ret.val =
                  Collect(ObjectsQueries(c.protocol.v, g, u, c.subworld, c.world_type.v))
                    (+) Collect(ObjectsProbeQueries(c.protocol.v, g, u))
           ELSE \A f \in BagToSet(last.ret.val) :
                  \/ f \in ProvidedIds(c.model_ids)
                  \/ /\ In(probe, u)
                     /\ ProbeOfModel(f, ProbeLabels(c.protocol.v, g),
                                     ProvidedIds(c.model_ids))

\* C12: a call of clients, models, objects, pairs,
\* get_client_id_from_file_id or get_client_id_from_model_id, whether it
\* returns or raises, leaves the tables of the database file and the
\* validity of the Database object as they were, and the same call made
\* again right after it has the same outcome.
C12_QueriesReadOnly ==
  [][(/\ last = NoLast
      /\ last'.call.op \in {"clients", "models", "objects", "pairs",
                            "get_client_id_from_file_id",
                            "get_client_id_from_model_id"})
       => /\ disk' = disk
          /\ is_valid' = is_valid
          /\ \E c \in {last'.call} : Outcome(c)' = last'.ret]_vars

\* C12 witness: on a valid database that holds pairs a failing call
\* (get_client_id_from_file_id of an unknown file) has been made, and the
\* database is still valid.
C12_Witness ==
  /\ is_valid
  /\ Db.pair # <<>>
  /\ last.call.op = "get_client_id_from_file_id"
  /\ last.call.arg = Str(<<"C", "_", "0", "0", "0", "1">>)
  /\ last.ret = Raise("AssertionError")
  /\ Outcome(last.call) = last.ret

\* the order of the steps of create(): each step and the one it follows
StepOrder ==
  { <<"start", "create_tables">>, <<"create_tables", "add_files">>,
    <<"add_files", "add_people">>, <<"add_people", "add_pairs">>,
    <<"add_pairs", "add_annotations">>, <<"add_annotations", "commit">> }

\* the steps that may raise, each with the step done before it
RaisingSteps == { <<"add_files", "raised">>, <<"add_people", "raised">> }

\* C13: create() does create_tables, add_files, add_people, add_pairs and
\* the annotations in this order and commits once, after all of them; the
\* rows of the database file change at the commit only, so that a reader
\* finds no row before it, the rows of the whole ingestion after it, and no
\* row at all when a step has raised.
C13_CommitOnceAtEnd ==
  [][/\ cpc' # cpc => <<cpc, cpc'>> \in StepOrder \cup RaisingSteps
     /\ disk'.tables # disk.tables
          => cpc = "add_annotations" /\ cpc' = "commit" /\ disk.tables = EmptyTables
     /\ cpc' # "commit" => disk'.tables = EmptyTables
     /\ cpc' = "commit" => disk'.tables = create(basedir')
     /\ cpc \in {"commit", "raised"} => cpc' = cpc]_vars

\* C13 witness: add_pairs has raised on a pairs line that names a missing
\* file, after add_files and add_people had added rows; the file exists, a
\* reader is connected to it and finds no pair.
C13_Witness ==
  /\ cpc = "raised"
  /\ basedir.peopleDevTrain # <<>>
  /\ basedir.pairsDevTest = << <<B, <<"1">>, <<"2">> >> >>
  /\ disk = DbFile(EmptyTables)
  /\ is_valid
  /\ last.call.op = "pairs"
  /\ last.ret = Return(EmptyBag)

=============================================================================
